---------------------------- MODULE Spec2Model ----------------------------
(***************************************************************************)
(* Model of packages/playwright-test/src/runner/loadUtils.ts: the          *)
(* loadAllTests pipeline (file-set resolution, loading, duplicate-title    *)
(* and forbid-only validation, project-suite composition, root assembly).  *)
(*                                                                         *)
(* Strings are sequences of tokens, so that joining a title path with a    *)
(* separator is a real concatenation.  A suite entry is a record           *)
(*   [kind, title, line, only, entries]                                    *)
(* with kind "test" (entries empty) or "describe".  Ordered Maps and Sets  *)
(* of the source are sequences in insertion order.                         *)
(***************************************************************************)
EXTENDS Integers, Sequences, FiniteSets, TLC

VARIABLES
  input,                \* config, options and the collaborators' answers of this run
  pc,                   \* position inside loadAllTests
  allFilesForProject,   \* ordered Map project -> files (line 50)
  filesToRunByProject,  \* ordered Map project -> files (line 42)
  topLevelProjects,     \* line 43
  dependencyProjects,   \* line 44
  allTestFiles,         \* the Set of line 86, in insertion order
  loaderHost,           \* "none" | "created" | "stopped"
  stopCalls,            \* number of loaderHost.stop() calls
  loadCalls,            \* files handed to loaderHost.loadTestFile, in call order
  fileSuits,            \* line 83
  errors,               \* the errors sink (third parameter)
  rootSuite,            \* line 100: sequence of project suites
  composed,             \* what each createProjectSuite call returned, in call order
  preOnlyRoot,          \* rootSuite as handed to filterOnly (line 117)
  outcome,              \* "pending" | "returned" | "thrown"
  log                   \* the calls loadAllTests has made so far, in order

vars == <<input, pc, allFilesForProject, filesToRunByProject, topLevelProjects,
          dependencyProjects, allTestFiles, loaderHost, stopCalls, loadCalls, fileSuits, errors,
          rootSuite, composed, preOnlyRoot, outcome, log>>

---------------------------------------------------------------------------
(* Bounds of the explored inputs *)

MaxRepeatEach == 2
MaxShardTotal == 2
MaxSameTitle == 3

---------------------------------------------------------------------------
(* Generic helpers *)

Range(s) == {s[i] : i \in 1..Len(s)}

Contains(s, x) == \E i \in 1..Len(s) : s[i] = x

RECURSIVE SelectIdx(_, _)
(* the elements of s whose index is in keep, order preserved *)
SelectIdx(s, keep) ==
  IF s = <<>> THEN <<>>
  ELSE LET n == Len(s)
           front == SelectIdx(SubSeq(s, 1, n - 1), keep)
       IN IF n \in keep THEN Append(front, s[n]) ELSE front

RECURSIVE Flatten(_)
(* concatenation of a sequence of sequences *)
Flatten(ss) == IF ss = <<>> THEN <<>> ELSE Head(ss) \o Flatten(Tail(ss))

RECURSIVE Dedupe(_)
(* insertion order of a JavaScript Set filled from s *)
Dedupe(s) ==
  IF s = <<>> THEN <<>>
  ELSE LET n == Len(s)
           front == Dedupe(SubSeq(s, 1, n - 1))
       IN IF Contains(front, s[n]) THEN front ELSE Append(front, s[n])

RECURSIVE Join(_, _)
(* Array.prototype.join: the segments with sep between them *)
Join(segments, sep) ==
  IF segments = <<>> THEN <<>>
  ELSE IF Len(segments) = 1 THEN segments[1]
  ELSE segments[1] \o sep \o Join(Tail(segments), sep)

Slice(s, n) == IF Len(s) <= n THEN <<>> ELSE SubSeq(s, n + 1, Len(s))

(* Ordered Map: a sequence of [project, files] in insertion order *)
MapHas(m, p) == \E i \in 1..Len(m) : m[i].project = p
MapGet(m, p) == LET i == CHOOSE i \in 1..Len(m) : m[i].project = p IN m[i].files
MapKeys(m) == [i \in 1..Len(m) |-> m[i].project]
MapSet(m, p, files) ==
  IF MapHas(m, p)
  THEN [i \in 1..Len(m) |-> IF m[i].project = p THEN [project |-> p, files |-> files] ELSE m[i]]
  ELSE Append(m, [project |-> p, files |-> files])
MapDelete(m, p) == SelectIdx(m, {i \in 1..Len(m) : m[i].project # p})

---------------------------------------------------------------------------
(* Collaborators of projectUtils / util / testGroups, as the specification *)
(* describes them                                                          *)

(* null / undefined: as a string where the value is a string, as the empty
   sequence where it is anything else (a present value v is then <<v>>) *)
Null == "null"

ProjectOf(cfg, name) ==
  LET i == CHOOSE i \in 1..Len(cfg.projects) : cfg.projects[i].name = name
  IN cfg.projects[i]

(* filterProjects(config.projects, options.projectFilter): all projects when
   no filter is given, else the projects named by it, in configuration order *)
FilterProjects(cfg) ==
  LET all == [i \in 1..Len(cfg.projects) |-> cfg.projects[i].name]
  IN IF cfg.projectFilter = <<>> THEN all
     ELSE SelectIdx(all, {i \in 1..Len(all) : all[i] \in cfg.projectFilter[1]})

(* collectFilesForProject(project, fsCache): the project's file listing *)
CollectFilesForProject(cfg, name) == ProjectOf(cfg, name).files

(* createFileMatcherFromFilters(filters)(file) *)
FileMatcher(filters, file) == \E i \in 1..Len(filters) : filters[i].file = file

RECURSIVE Visit(_, _, _, _)
RECURSIVE VisitAll(_, _, _, _)
(* one project of the dependency walk: recorded when reached as a dependency *)
Visit(cfg, depth, name, result) ==
  IF depth > 0 /\ Contains(result, name) THEN result
  ELSE VisitAll(cfg, depth + 1, ProjectOf(cfg, name).deps,
                IF depth > 0 THEN Append(result, name) ELSE result)

VisitAll(cfg, depth, names, result) ==
  IF names = <<>> THEN result
  ELSE VisitAll(cfg, depth, Tail(names), Visit(cfg, depth, Head(names), result))

(* projectsThatAreDependencies(projects): the transitive dependency closure *)
ProjectsThatAreDependencies(cfg, names) == VisitAll(cfg, 0, names, <<>>)

RECURSIVE TotalFiles(_)
TotalFiles(m) == IF m = <<>> THEN 0 ELSE Len(Head(m).files) + TotalFiles(Tail(m))

Min(a, b) == IF a < b THEN a ELSE b

(* filterForShard(shard, filesByProject): the (project, file) pairs, counted
   in Map order, are cut into shard.total contiguous ranges; projects left
   without a file are dropped *)
FilterForShard(shard, m) ==
  LET shardableTotal == TotalFiles(m)
      shardSize == shardableTotal \div shard.total
      extraOne == shardableTotal - shardSize * shard.total
      currentShard == shard.current - 1
      from == shardSize * currentShard + Min(extraOne, currentShard)
      to == from + shardSize + (IF currentShard < extraOne THEN 1 ELSE 0)
      offset(i) == TotalFiles(SubSeq(m, 1, i - 1))
      shardFiles(i) ==
        SelectIdx(m[i].files,
                  {k \in 1..Len(m[i].files) :
                     offset(i) + k - 1 >= from /\ offset(i) + k - 1 < to})
      kept == [i \in 1..Len(m) |-> [project |-> m[i].project, files |-> shardFiles(i)]]
  IN SelectIdx(kept, {i \in 1..Len(m) : kept[i].files # <<>>})

(* createTitleMatcher(pattern)(title): ".*" matches every title, a word
   matches the titles it occurs in *)
CreateTitleMatcher(pattern, title) == pattern = ".*" \/ Contains(title, pattern)

---------------------------------------------------------------------------
(* Suites (common/test, common/suiteUtils), as the specification describes *)
(* them                                                                    *)

RECURSIVE AllTests(_, _)
(* Suite.allTests(): the tests of a suite in declaration order, each with
   its title path below `prefix` *)
AllTests(entries, prefix) ==
  IF entries = <<>> THEN <<>>
  ELSE LET e == Head(entries)
       IN (IF e.kind = "test"
           THEN <<[titlePath |-> Append(prefix, e.title), line |-> e.line, only |-> e.only]>>
           ELSE AllTests(e.entries, Append(prefix, e.title)))
          \o AllTests(Tail(entries), prefix)

(* buildFileSuiteForProject(project, fileSuite, repeatEachIndex): a clone of
   the file suite stamped with the project and the repeat index *)
BuildFileSuiteForProject(project, fileSuite, repeatEachIndex) ==
  [file |-> fileSuite.file, project |-> project.name,
   repeatEachIndex |-> repeatEachIndex, entries |-> fileSuite.entries]

RECURSIVE FilterLeavesByLine(_, _, _)
(* leaves of one file kept when a filter names the file and, if it carries a
   line, that line; groups left empty are pruned *)
FilterLeavesByLine(entries, file, filters) ==
  IF entries = <<>> THEN <<>>
  ELSE LET e == Head(entries)
           rest == FilterLeavesByLine(Tail(entries), file, filters)
           lineMatches ==
             \E i \in 1..Len(filters) :
               filters[i].file = file /\ (filters[i].line = <<>> \/ filters[i].line = <<e.line>>)
       IN IF e.kind = "test"
          THEN IF lineMatches THEN <<e>> \o rest ELSE rest
          ELSE LET inner == FilterLeavesByLine(e.entries, file, filters)
               IN IF inner = <<>> THEN rest ELSE <<[e EXCEPT !.entries = inner]>> \o rest

(* filterByFocusedLine(suite, testFileFilters) over the file suites of a
   project suite; nothing happens without filters *)
FilterByFocusedLine(fileSuites, filters) ==
  IF filters = <<>> THEN fileSuites
  ELSE LET f == [i \in 1..Len(fileSuites) |->
                   [fileSuites[i] EXCEPT
                      !.entries = FilterLeavesByLine(fileSuites[i].entries, fileSuites[i].file, filters)]]
       IN SelectIdx(f, {i \in 1..Len(f) : f[i].entries # <<>>})

(* Title path of a test of a project suite not yet attached to the root:
   project, file, groups, test *)
ProjectTitlePath(project, file, path) == <<<<project.name>>, <<file>>>> \o path

(* as TitleMatcher, with || between grep and the external matcher *)
TitleMatcherEitherMatch(project, options, titlePath) ==
  LET grepTitle == Join(titlePath, <<" ">>)
  IN IF project.grepInvert # Null /\ CreateTitleMatcher(project.grepInvert, grepTitle)
     THEN FALSE
     ELSE \/ CreateTitleMatcher(project.grep, grepTitle)
          \/ (options.testTitleMatcher = Null
              \/ CreateTitleMatcher(options.testTitleMatcher, grepTitle))

(* The titleMatcher closure of createProjectSuite, lines 153-158 *)
TitleMatcher(project, options, titlePath) ==
  LET grepTitle == Join(titlePath, <<" ">>)
  IN IF project.grepInvert # Null /\ CreateTitleMatcher(project.grepInvert, grepTitle)
     THEN FALSE
     ELSE /\ CreateTitleMatcher(project.grep, grepTitle)
          /\ (options.testTitleMatcher = Null
              \/ CreateTitleMatcher(options.testTitleMatcher, grepTitle))

RECURSIVE FilterTestsRemoveEmptySuites(_, _, _, _)
(* filterTestsRemoveEmptySuites(suite, titleMatcher) below one suite whose
   title path is `prefix`: tests the matcher rejects and suites left empty go *)
FilterTestsRemoveEmptySuites(entries, prefix, project, options) ==
  IF entries = <<>> THEN <<>>
  ELSE LET e == Head(entries)
           rest == FilterTestsRemoveEmptySuites(Tail(entries), prefix, project, options)
       IN IF e.kind = "test"
          THEN IF TitleMatcher(project, options, Append(prefix, e.title))
               THEN <<e>> \o rest ELSE rest
          ELSE LET inner == FilterTestsRemoveEmptySuites(e.entries, Append(prefix, e.title),
                                                         project, options)
               IN IF inner = <<>> THEN rest ELSE <<[e EXCEPT !.entries = inner]>> \o rest

HasFileSuite(suites, file) == \E i \in 1..Len(suites) : suites[i].file = file
(* fileSuitesMap.get(file): a later suite of the same file replaces an earlier one *)
FileSuiteOf(suites, file) ==
  LET i == CHOOSE i \in 1..Len(suites) :
             suites[i].file = file /\ \A j \in (i + 1)..Len(suites) : suites[j].file # file
  IN suites[i]

(* The clones createProjectSuite attaches: per file, one per repeat index *)
ClonesForProject(suites, project, files) ==
  Flatten([k \in 1..Len(files) |->
             IF HasFileSuite(suites, files[k])
             THEN [r \in 1..project.repeatEach |->
                     BuildFileSuiteForProject(project, FileSuiteOf(suites, files[k]), r - 1)]
             ELSE <<>>])

(* as CreateProjectSuite, returning the project suite also when it is empty *)
CreateProjectSuiteNeverNull(suites, project, options, files) ==
  LET clones == ClonesForProject(suites, project, files)
      focused == FilterByFocusedLine(clones, options.testFileFilters)
      f == [i \in 1..Len(focused) |->
              [focused[i] EXCEPT
                 !.entries = FilterTestsRemoveEmptySuites(
                               focused[i].entries, ProjectTitlePath(project, focused[i].file, <<>>),
                               project, options)]]
      kept == SelectIdx(f, {i \in 1..Len(f) : f[i].entries # <<>>})
  IN <<[project |-> project.name,
        parallelMode |-> IF project.fullyParallel THEN "parallel" ELSE "default",
        entries |-> kept]>>

(* createProjectSuite(fileSuits, project, options, files): <<>> for null,
   <<projectSuite>> otherwise *)
CreateProjectSuite(suites, project, options, files) ==
  LET clones == ClonesForProject(suites, project, files)
      focused == FilterByFocusedLine(clones, options.testFileFilters)
      f == [i \in 1..Len(focused) |->
              [focused[i] EXCEPT
                 !.entries = FilterTestsRemoveEmptySuites(
                               focused[i].entries, ProjectTitlePath(project, focused[i].file, <<>>),
                               project, options)]]
      kept == SelectIdx(f, {i \in 1..Len(f) : f[i].entries # <<>>})
  IN IF kept = <<>> THEN <<>>
     ELSE <<[project |-> project.name,
             parallelMode |-> IF project.fullyParallel THEN "parallel" ELSE "default",
             entries |-> kept]>>

---------------------------------------------------------------------------
(* Validation *)

(* buildItemLocation(rootDir, testOrSuite): the file and line of "<file>:<line>" *)
BuildItemLocation(file, test) == [file |-> file, line |-> test.line]

NoLocation == [file |-> "", line |-> 0]

RECURSIVE DuplicateScan(_, _, _)
(* The inner loop of createDuplicateTitlesErrors over fileSuite.allTests();
   testsByFullTitle is the Map of lines 182-193, " > " the separator *)
DuplicateScan(file, tests, testsByFullTitle) ==
  IF tests = <<>> THEN <<>>
  ELSE LET test == Head(tests)
           fullTitle == Join(Slice(test.titlePath, 1), <<" > ">>)
           found == fullTitle \in DOMAIN testsByFullTitle
           next == [t \in DOMAIN testsByFullTitle \cup {fullTitle} |->
                      IF t = fullTitle THEN test ELSE testsByFullTitle[t]]
           error == [type |-> "duplicate", title |-> fullTitle,
                     firstDeclaredIn |-> IF found
                                         THEN BuildItemLocation(file, testsByFullTitle[fullTitle])
                                         ELSE NoLocation,
                     location |-> [file |-> file, line |-> test.line]]
       IN (IF found THEN <<error>> ELSE <<>>) \o DuplicateScan(file, Tail(tests), next)

(* as CreateDuplicateTitlesErrors, with one testsByFullTitle Map for all files *)
CreateDuplicateTitlesErrorsOneMap(suites) ==
  LET before(i) == Flatten([k \in 1..(i - 1) |->
                             AllTests(suites[k].entries, <<<<suites[k].file>>>>)])
      titles(i) == {Join(Slice(before(i)[n].titlePath, 1), <<" > ">>) : n \in 1..Len(before(i))}
      seen(i) == [t \in titles(i) |->
                    before(i)[CHOOSE n \in 1..Len(before(i)) :
                                Join(Slice(before(i)[n].titlePath, 1), <<" > ">>) = t]]
  IN Flatten([i \in 1..Len(suites) |->
                DuplicateScan(suites[i].file,
                              AllTests(suites[i].entries, <<<<suites[i].file>>>>),
                              seen(i))])

(* createDuplicateTitlesErrors(config, fileSuites) *)
CreateDuplicateTitlesErrors(suites) ==
  Flatten([i \in 1..Len(suites) |->
             DuplicateScan(suites[i].file,
                           AllTests(suites[i].entries, <<<<suites[i].file>>>>),
                           <<>>)])

RECURSIVE OnlyItemsOf(_, _, _)
(* Suite._getOnlyItems() below one suite: focused groups and tests, each with
   its title path and location *)
OnlyItemsOf(entries, prefix, file) ==
  IF entries = <<>> THEN <<>>
  ELSE LET e == Head(entries)
           self == IF e.only
                   THEN <<[titlePath |-> Append(prefix, e.title),
                           location |-> [file |-> file, line |-> e.line]]>>
                   ELSE <<>>
       IN self \o OnlyItemsOf(e.entries, Append(prefix, e.title), file)
               \o OnlyItemsOf(Tail(entries), prefix, file)

(* rootSuite._getOnlyItems(): title paths start at the root's empty title *)
GetOnlyItems(root) ==
  Flatten([i \in 1..Len(root) |->
    Flatten([k \in 1..Len(root[i].entries) |->
      OnlyItemsOf(root[i].entries[k].entries,
                  <<<<>>, <<root[i].project>>, <<root[i].entries[k].file>>>>,
                  root[i].entries[k].file)])])

(* createForbidOnlyErrors(onlyTestsAndSuites) *)
CreateForbidOnlyErrors(onlyTestsAndSuites) ==
  [i \in 1..Len(onlyTestsAndSuites) |->
     [type |-> "forbidOnly",
      title |-> Join(Slice(onlyTestsAndSuites[i].titlePath, 2), <<" ">>),
      firstDeclaredIn |-> NoLocation,
      location |-> onlyTestsAndSuites[i].location]]

RECURSIVE HasOnly(_)
HasOnly(entries) ==
  IF entries = <<>> THEN FALSE
  ELSE Head(entries).only \/ HasOnly(Head(entries).entries) \/ HasOnly(Tail(entries))

RECURSIVE FilterOnlyEntries(_)
(* Only-pruning below one suite that holds a focused item: a focused entry
   stays whole, an entry with a focused descendant stays pruned to it, the
   others go *)
FilterOnlyEntries(entries) ==
  IF entries = <<>> THEN <<>>
  ELSE LET e == Head(entries)
           rest == FilterOnlyEntries(Tail(entries))
       IN IF e.only THEN <<e>> \o rest
          ELSE IF HasOnly(e.entries)
               THEN <<[e EXCEPT !.entries = FilterOnlyEntries(e.entries)]>> \o rest
               ELSE rest

(* filterOnly(rootSuite): unchanged when nothing is focused, else only the
   focused items with their ancestors and descendants remain *)
FilterOnly(root) ==
  IF GetOnlyItems(root) = <<>> THEN root
  ELSE LET files(i) ==
             LET fs == root[i].entries
                 g == [k \in 1..Len(fs) |->
                         [fs[k] EXCEPT !.entries = FilterOnlyEntries(fs[k].entries)]]
             IN SelectIdx(g, {k \in 1..Len(g) : g[k].entries # <<>>})
           ps == [i \in 1..Len(root) |-> [root[i] EXCEPT !.entries = files(i)]]
       IN SelectIdx(ps, {i \in 1..Len(ps) : ps[i].entries # <<>>})

---------------------------------------------------------------------------
(* The phases of loadAllTests as functions of the run's input `cfg` *)

(* lines 50-54 *)
CollectAllFiles(cfg) ==
  LET projects == FilterProjects(cfg)
  IN [i \in 1..Len(projects) |->
        [project |-> projects[i], files |-> CollectFilesForProject(cfg, projects[i])]]

(* lines 57-62 *)
FilterFilesByCommandLine(cfg, all) ==
  LET filtered(i) ==
        IF cfg.testFileFilters # <<>>
        THEN SelectIdx(all[i].files,
                       {k \in 1..Len(all[i].files) : FileMatcher(cfg.testFileFilters, all[i].files[k])})
        ELSE all[i].files
      m == [i \in 1..Len(all) |-> [project |-> all[i].project, files |-> filtered(i)]]
  IN SelectIdx(m, {i \in 1..Len(m) : m[i].files # <<>>})

RECURSIVE DeleteProjects(_, _)
DeleteProjects(m, projects) ==
  IF projects = <<>> THEN m ELSE DeleteProjects(MapDelete(m, Head(projects)), Tail(projects))

(* as RemoveDependencyProjects, leaving the dependency projects in the Map *)
KeepDependencyProjects(cfg, m) == m

(* lines 64-65 *)
RemoveDependencyProjects(cfg, m) ==
  DeleteProjects(m, ProjectsThatAreDependencies(cfg, MapKeys(m)))

(* lines 68-69 *)
ShardTopLevel(cfg, m) == IF cfg.shard # <<>> THEN FilterForShard(cfg.shard[1], m) ELSE m

RECURSIVE ReAddDependencies(_, _, _, _)
(* lines 76-79 *)
ReAddDependencies(cfg, m, all, deps) ==
  IF deps = <<>> THEN m
  ELSE LET project == Head(deps)
           files == IF MapHas(all, project) THEN MapGet(all, project)
                    ELSE CollectFilesForProject(cfg, project)
       IN ReAddDependencies(cfg, MapSet(m, project, files), all, Tail(deps))

(* as AllTestFiles, collecting into a list instead of a Set *)
AllTestFilesAsList(m) == Flatten([i \in 1..Len(m) |-> m[i].files])

(* lines 86-88 *)
AllTestFiles(m) == Dedupe(Flatten([i \in 1..Len(m) |-> m[i].files]))

(* loaderHost.loadTestFile(file, errors): the file suite it resolves to *)
LoadedFileSuite(cfg, file) ==
  [file |-> file, entries |-> IF file \in cfg.errorFiles THEN <<>> ELSE cfg.contents[file]]

Options(cfg) ==
  [testFileFilters |-> cfg.testFileFilters, testTitleMatcher |-> cfg.testTitleMatcher]

(* as DependencyOptions, handing the command-line options through *)
DependencyOptionsUnchanged(cfg) == Options(cfg)

(* { ...options, testFileFilters: [], testTitleMatcher: undefined } (line 121) *)
DependencyOptions(cfg) == [testFileFilters |-> <<>>, testTitleMatcher |-> Null]

RECURSIVE ComposeTopLevel(_, _, _, _, _)
(* lines 103-107 *)
ComposeTopLevel(cfg, suites, projects, m, root) ==
  IF projects = <<>> THEN root
  ELSE LET projectSuite == CreateProjectSuite(suites, ProjectOf(cfg, Head(projects)),
                                              Options(cfg), MapGet(m, Head(projects)))
       IN ComposeTopLevel(cfg, suites, Tail(projects), m, root \o projectSuite)

(* lines 110-114 *)
ForbidOnlyErrors(cfg, root) ==
  IF cfg.forbidOnly /\ Len(GetOnlyItems(root)) > 0
  THEN CreateForbidOnlyErrors(GetOnlyItems(root))
  ELSE <<>>

RECURSIVE AppendDependencies(_, _, _, _, _)
(* as PrependDependencies, with _addSuite in place of _prependSuite *)
AppendDependencies(cfg, suites, projects, m, root) ==
  IF projects = <<>> THEN root
  ELSE LET projectSuite == CreateProjectSuite(suites, ProjectOf(cfg, Head(projects)),
                                              DependencyOptions(cfg), MapGet(m, Head(projects)))
       IN AppendDependencies(cfg, suites, Tail(projects), m, root \o projectSuite)

RECURSIVE PrependDependenciesInOrder(_, _, _, _, _)
(* as PrependDependencies, with the dependency suites in the order of the list *)
PrependDependenciesInOrder(cfg, suites, projects, m, root) ==
  IF projects = <<>> THEN root
  ELSE CreateProjectSuite(suites, ProjectOf(cfg, Head(projects)),
                          DependencyOptions(cfg), MapGet(m, Head(projects)))
         \o PrependDependenciesInOrder(cfg, suites, Tail(projects), m, root)

RECURSIVE PrependDependencies(_, _, _, _, _)
(* lines 120-124 *)
PrependDependencies(cfg, suites, projects, m, root) ==
  IF projects = <<>> THEN root
  ELSE LET projectSuite == CreateProjectSuite(suites, ProjectOf(cfg, Head(projects)),
                                              DependencyOptions(cfg), MapGet(m, Head(projects)))
       IN PrependDependencies(cfg, suites, Tail(projects), m, projectSuite \o root)

(* The createProjectSuite results of both loops, in call order *)
ComposedTopLevel(cfg, suites, projects, m) ==
  [i \in 1..Len(projects) |->
     [project |-> projects[i], dependency |-> FALSE,
      suite |-> CreateProjectSuite(suites, ProjectOf(cfg, projects[i]), Options(cfg),
                                   MapGet(m, projects[i]))]]

ComposedDependencies(cfg, suites, projects, m) ==
  [i \in 1..Len(projects) |->
     [project |-> projects[i], dependency |-> TRUE,
      suite |-> CreateProjectSuite(suites, ProjectOf(cfg, projects[i]), DependencyOptions(cfg),
                                   MapGet(m, projects[i]))]]

(* lines 39-127 for a run in which no load throws: the returned root *)
LoadAllTests(cfg) ==
  LET all == CollectAllFiles(cfg)
      sharded == ShardTopLevel(cfg, RemoveDependencyProjects(cfg, FilterFilesByCommandLine(cfg, all)))
      top == MapKeys(sharded)
      deps == ProjectsThatAreDependencies(cfg, top)
      m == ReAddDependencies(cfg, sharded, all, deps)
      files == AllTestFiles(m)
      suites == [i \in 1..Len(files) |-> LoadedFileSuite(cfg, files[i])]
      leaf == FilterOnly(ComposeTopLevel(cfg, suites, top, m, <<>>))
  IN PrependDependencies(cfg, suites, deps, m, leaf)

(* lines 96-114 for a run in which no load throws: the duplicate-title and
   forbid-only errors appended to the sink, in order *)
ValidationErrors(cfg) ==
  LET all == CollectAllFiles(cfg)
      sharded == ShardTopLevel(cfg, RemoveDependencyProjects(cfg, FilterFilesByCommandLine(cfg, all)))
      top == MapKeys(sharded)
      deps == ProjectsThatAreDependencies(cfg, top)
      m == ReAddDependencies(cfg, sharded, all, deps)
      files == AllTestFiles(m)
      suites == [i \in 1..Len(files) |-> LoadedFileSuite(cfg, files[i])]
  IN CreateDuplicateTitlesErrors(suites)
       \o ForbidOnlyErrors(cfg, ComposeTopLevel(cfg, suites, top, m, <<>>))

---------------------------------------------------------------------------
(* The inputs explored *)

Test(title, line, only) ==
  [kind |-> "test", title |-> title, line |-> line, only |-> only, entries |-> <<>>]

Describe(title, line, only, entries) ==
  [kind |-> "describe", title |-> title, line |-> line, only |-> only, entries |-> entries]

Plain == <<Test(<<"x">>, 1, FALSE), Test(<<"y">>, 2, FALSE)>>
OnlyTest == <<Test(<<"x">>, 1, TRUE), Test(<<"y">>, 2, FALSE)>>
OnlyGroup ==
  <<Describe(<<"g">>, 1, TRUE, <<Test(<<"x">>, 2, FALSE), Test(<<"y">>, 3, FALSE)>>),
    Test(<<"y">>, 4, FALSE)>>
OnlyInGroup ==
  <<Describe(<<"g">>, 1, FALSE, <<Test(<<"x">>, 2, TRUE), Test(<<"y">>, 3, FALSE)>>),
    Test(<<"y">>, 4, FALSE)>>
OnlyInOnlyGroup ==
  <<Describe(<<"g">>, 1, TRUE, <<Test(<<"x">>, 2, TRUE), Test(<<"y">>, 3, FALSE)>>),
    Test(<<"y">>, 4, FALSE)>>
(* k tests of one title *)
SameTitle(k) == [i \in 1..k |-> Test(<<"x">>, i, FALSE)]
GroupDuplicate ==
  <<Describe(<<"g">>, 1, FALSE, <<Test(<<"x">>, 2, FALSE), Test(<<"x">>, 3, FALSE)>>),
    Test(<<"x">>, 4, FALSE)>>
(* a test whose own title holds the separator *)
SeparatorInTitle ==
  <<Describe(<<"g">>, 1, FALSE, <<Test(<<"x">>, 2, FALSE)>>),
    Test(<<"g", " > ", "x">>, 3, FALSE)>>

Files == {"a", "b", "c"}
Contents(a, b, c) == [f \in Files |-> IF f = "a" THEN a ELSE IF f = "b" THEN b ELSE c]

Project(name, deps, files) ==
  [name |-> name, deps |-> deps, files |-> files, repeatEach |-> 1,
   grep |-> ".*", grepInvert |-> Null, fullyParallel |-> FALSE]

(* Dependency graphs over three projects that share files *)
Independent ==
  <<Project("p1", <<>>, <<"a", "b">>), Project("p2", <<>>, <<"b", "c">>),
    Project("p3", <<>>, <<"c">>)>>
OneDependency ==
  <<Project("p1", <<>>, <<"a", "b">>), Project("p2", <<"p1">>, <<"b", "c">>),
    Project("p3", <<>>, <<"c">>)>>
Chain ==
  <<Project("p1", <<>>, <<"a", "b">>), Project("p2", <<"p1">>, <<"b", "c">>),
    Project("p3", <<"p2">>, <<"c">>)>>
SharedDependency ==
  <<Project("p1", <<>>, <<"a", "b">>), Project("p2", <<"p1">>, <<"b", "c">>),
    Project("p3", <<"p1", "p2">>, <<"c">>)>>
(* p1 and p2 depend on each other *)
Cyclic ==
  <<Project("p1", <<"p2">>, <<"a", "b">>), Project("p2", <<"p1">>, <<"b", "c">>),
    Project("p3", <<"p1">>, <<"c">>)>>

(* p1 with its repeatEach, grep and grepInvert set *)
WithP1(projects, repeatEach, grep, grepInvert) ==
  [i \in 1..Len(projects) |->
     IF projects[i].name = "p1"
     THEN [projects[i] EXCEPT !.repeatEach = repeatEach, !.grep = grep,
                              !.grepInvert = grepInvert]
     ELSE projects[i]]

Shards ==
  {<<>>} \cup UNION {{<<[total |-> t, current |-> c]>> : c \in 1..t} : t \in 1..MaxShardTotal}

Input(projects, shard, forbidOnly, projectFilter, fileFilters, titleMatcher, contents, throwAt, errorFiles) ==
  [projects |-> projects, shard |-> shard, forbidOnly |-> forbidOnly,
   projectFilter |-> projectFilter, testFileFilters |-> fileFilters,
   testTitleMatcher |-> titleMatcher, contents |-> contents,
   throwAt |-> throwAt, errorFiles |-> errorFiles]

(* dependency graphs against project, file and title filters and sharding *)
FilterInputs ==
  {Input(WithP1(projects, r, g[1], g[2]), shard, FALSE, projectFilter, fileFilters, matcher,
         Contents(a, Plain, Plain), Null, {}) :
     projects \in {Independent, OneDependency, Chain, SharedDependency, Cyclic},
     r \in 1..MaxRepeatEach,
     g \in {<<".*", Null>>, <<".*", "y">>, <<"x", Null>>, <<"z", Null>>},
     shard \in Shards,
     projectFilter \in {<<>>, <<{"p2"}>>, <<{"p3"}>>},
     fileFilters \in {<<>>, <<[file |-> "b", line |-> <<>>]>>, <<[file |-> "c", line |-> <<1>>]>>},
     matcher \in {Null, "x"},
     a \in {Plain, OnlyTest}}

(* placements of focused items against forbidOnly, repeatEach and sharding *)
FocusInputs ==
  {Input(WithP1(projects, r, ".*", Null), shard, forbidOnly, projectFilter, <<>>, matcher,
         Contents(a, b, Plain), Null, {}) :
     projects \in {Independent, OneDependency},
     r \in 1..MaxRepeatEach,
     shard \in Shards,
     forbidOnly \in BOOLEAN,
     projectFilter \in {<<>>, <<{"p1"}>>},
     matcher \in {Null, "y"},
     a \in {Plain, OnlyTest, OnlyGroup, OnlyInGroup, OnlyInOnlyGroup},
     b \in {Plain, OnlyTest, SameTitle(2)}}

(* repeated titles against the loader's answers *)
LoaderInputs ==
  {Input(projects, <<>>, FALSE, <<>>, <<>>, Null, Contents(a, b, Plain), throwAt, errorFiles) :
     projects \in {Independent, OneDependency},
     a \in {SameTitle(k) : k \in 1..MaxSameTitle} \cup {GroupDuplicate, SeparatorInTitle},
     b \in {Plain, SameTitle(2)},
     throwAt \in Files \cup {Null},
     errorFiles \in {{}, {"b"}}}

Inputs == FilterInputs \cup FocusInputs \cup LoaderInputs

---------------------------------------------------------------------------
(* loadAllTests as a state machine *)

(* one awaited or plain call of loadAllTests, as recorded in `log` *)
Call(op, arg) == [op |-> op, arg |-> arg]
Calls(op, args) == [i \in 1..Len(args) |-> Call(op, args[i])]

(* the projects of a list whose files line 52 has not listed (line 77) *)
NotListed(all, projects) ==
  SelectIdx(projects, {i \in 1..Len(projects) : ~MapHas(all, projects[i])})

Init ==
  /\ input \in Inputs
  /\ pc = "collect"
  /\ allFilesForProject = <<>>
  /\ filesToRunByProject = <<>>
  /\ topLevelProjects = <<>>
  /\ dependencyProjects = <<>>
  /\ allTestFiles = <<>>
  /\ loaderHost = "none"
  /\ stopCalls = 0
  /\ loadCalls = <<>>
  /\ fileSuits = <<>>
  /\ errors = <<>>
  /\ rootSuite = <<>>
  /\ composed = <<>>
  /\ preOnlyRoot = <<>>
  /\ outcome = "pending"
  /\ log = <<>>

(* lines 40-54: select the projects and list the files of each *)
CollectFiles ==
  /\ pc = "collect"
  /\ allFilesForProject' = CollectAllFiles(input)
  /\ pc' = "filter"
  /\ log' = log \o Calls("collectFilesForProject", FilterProjects(input))
  /\ UNCHANGED <<input, filesToRunByProject, topLevelProjects, dependencyProjects,
                 allTestFiles, loaderHost, stopCalls, loadCalls, fileSuits, errors,
                 rootSuite, composed, preOnlyRoot, outcome>>

(* lines 56-65: apply the file filters, drop empty and dependency projects *)
FilterFiles ==
  /\ pc = "filter"
  /\ filesToRunByProject' =
       RemoveDependencyProjects(input, FilterFilesByCommandLine(input, allFilesForProject))
  /\ pc' = "shard"
  /\ UNCHANGED <<input, log, allFilesForProject, topLevelProjects, dependencyProjects,
                 allTestFiles, loaderHost, stopCalls, loadCalls, fileSuits, errors,
                 rootSuite, composed, preOnlyRoot, outcome>>

(* lines 67-69 *)
Shard ==
  /\ pc = "shard"
  /\ filesToRunByProject' = ShardTopLevel(input, filesToRunByProject)
  /\ pc' = "closure"
  /\ UNCHANGED <<input, log, allFilesForProject, topLevelProjects, dependencyProjects,
                 allTestFiles, loaderHost, stopCalls, loadCalls, fileSuits, errors,
                 rootSuite, composed, preOnlyRoot, outcome>>

(* as RebuildClosure, with the closure of the projects selected before sharding *)
RebuildClosureBeforeSharding ==
  /\ pc = "closure"
  /\ topLevelProjects' = MapKeys(filesToRunByProject)
  /\ dependencyProjects' =
       ProjectsThatAreDependencies(
         input, MapKeys(FilterFilesByCommandLine(input, allFilesForProject)))
  /\ filesToRunByProject' =
       ReAddDependencies(input, filesToRunByProject, allFilesForProject, dependencyProjects')
  /\ pc' = "createLoader"
  /\ log' = log \o Calls("collectFilesForProject", NotListed(allFilesForProject, dependencyProjects'))
  /\ UNCHANGED <<input, allFilesForProject, allTestFiles, loaderHost, stopCalls, loadCalls,
                 fileSuits, errors, rootSuite, composed, preOnlyRoot, outcome>>

(* lines 71-79: rebuild the closure and add the dependencies' files back *)
RebuildClosure ==
  /\ pc = "closure"
  /\ topLevelProjects' = MapKeys(filesToRunByProject)
  /\ dependencyProjects' = ProjectsThatAreDependencies(input, topLevelProjects')
  /\ filesToRunByProject' =
       ReAddDependencies(input, filesToRunByProject, allFilesForProject, dependencyProjects')
  /\ pc' = "createLoader"
  /\ log' = log \o Calls("collectFilesForProject", NotListed(allFilesForProject, dependencyProjects'))
  /\ UNCHANGED <<input, allFilesForProject, allTestFiles, loaderHost, stopCalls, loadCalls,
                 fileSuits, errors, rootSuite, composed, preOnlyRoot, outcome>>

(* lines 83-88: create the loader host and the set of files to load *)
CreateLoaderHost ==
  /\ pc = "createLoader"
  /\ loaderHost' = "created"
  /\ allTestFiles' = AllTestFiles(filesToRunByProject)
  /\ pc' = "load"
  /\ UNCHANGED <<input, log, allFilesForProject, filesToRunByProject, topLevelProjects,
                 dependencyProjects, stopCalls, loadCalls, fileSuits, errors, rootSuite,
                 composed, preOnlyRoot, outcome>>

(* as LoadTestFile, ending loadAllTests when the load reports an error *)
LoadTestFileAbortingOnError ==
  /\ pc = "load"
  /\ Len(loadCalls) < Len(allTestFiles)
  /\ LET file == allTestFiles[Len(loadCalls) + 1]
     IN /\ loadCalls' = Append(loadCalls, file)
        /\ \/ /\ file # input.throwAt
              /\ fileSuits' = Append(fileSuits, LoadedFileSuite(input, file))
              /\ errors' = IF file \in input.errorFiles
                           THEN Append(errors, [type |-> "load", title |-> <<>>,
                                                firstDeclaredIn |-> NoLocation,
                                                location |-> [file |-> file, line |-> 0]])
                           ELSE errors
              /\ pc' = IF file \in input.errorFiles THEN "failed" ELSE pc
              /\ outcome' = IF file \in input.errorFiles THEN "thrown" ELSE outcome
           \/ /\ file = input.throwAt
              /\ pc' = "failed"
              /\ outcome' = "thrown"
              /\ UNCHANGED <<fileSuits, errors>>
  /\ log' = Append(log, Call("loadTestFile", allTestFiles[Len(loadCalls) + 1]))
  /\ UNCHANGED <<input, allFilesForProject, filesToRunByProject, topLevelProjects,
                 dependencyProjects, allTestFiles, loaderHost, stopCalls, rootSuite,
                 composed, preOnlyRoot>>

(* lines 89-92, one iteration: the load resolves (with or without an error
   reported to the sink) or rejects, which ends loadAllTests *)
LoadTestFile ==
  /\ pc = "load"
  /\ Len(loadCalls) < Len(allTestFiles)
  /\ LET file == allTestFiles[Len(loadCalls) + 1]
     IN /\ loadCalls' = Append(loadCalls, file)
        /\ \/ /\ file # input.throwAt
              /\ fileSuits' = Append(fileSuits, LoadedFileSuite(input, file))
              /\ errors' = IF file \in input.errorFiles
                           THEN Append(errors, [type |-> "load", title |-> <<>>,
                                                firstDeclaredIn |-> NoLocation,
                                                location |-> [file |-> file, line |-> 0]])
                           ELSE errors
              /\ UNCHANGED <<pc, outcome>>
           \/ /\ file = input.throwAt
              /\ pc' = "failed"
              /\ outcome' = "thrown"
              /\ UNCHANGED <<fileSuits, errors>>
  /\ log' = Append(log, Call("loadTestFile", allTestFiles[Len(loadCalls) + 1]))
  /\ UNCHANGED <<input, allFilesForProject, filesToRunByProject, topLevelProjects,
                 dependencyProjects, allTestFiles, loaderHost, stopCalls, rootSuite,
                 composed, preOnlyRoot>>

(* line 93 *)
StopLoaderHost ==
  /\ pc = "load"
  /\ Len(loadCalls) = Len(allTestFiles)
  /\ loaderHost' = "stopped"
  /\ stopCalls' = stopCalls + 1
  /\ pc' = "duplicates"
  /\ log' = Append(log, Call("stop", ""))
  /\ UNCHANGED <<input, allFilesForProject, filesToRunByProject, topLevelProjects,
                 dependencyProjects, allTestFiles, loadCalls, fileSuits, errors, rootSuite,
                 composed, preOnlyRoot, outcome>>

(* lines 96-97 *)
ComplainAboutDuplicateTitles ==
  /\ pc = "duplicates"
  /\ errors' = errors \o CreateDuplicateTitlesErrors(fileSuits)
  /\ pc' = "compose"
  /\ log' = Append(log, Call("createDuplicateTitlesErrors", ""))
  /\ UNCHANGED <<input, allFilesForProject, filesToRunByProject, topLevelProjects,
                 dependencyProjects, allTestFiles, loaderHost, stopCalls, loadCalls,
                 fileSuits, rootSuite, composed, preOnlyRoot, outcome>>

(* as ComposeTopLevelProjects, with the first top-level project filtering the
   loaded file suites themselves instead of clones *)
ComposeTopLevelProjectsInPlace ==
  /\ pc = "compose"
  /\ rootSuite' = ComposeTopLevel(input, fileSuits, topLevelProjects, filesToRunByProject, <<>>)
  /\ composed' = ComposedTopLevel(input, fileSuits, topLevelProjects, filesToRunByProject)
  /\ fileSuits' =
       [i \in 1..Len(fileSuits) |->
          IF /\ topLevelProjects # <<>>
             /\ Contains(MapGet(filesToRunByProject, topLevelProjects[1]), fileSuits[i].file)
          THEN [fileSuits[i] EXCEPT
                  !.entries = FilterTestsRemoveEmptySuites(
                                @, ProjectTitlePath(ProjectOf(input, topLevelProjects[1]),
                                                    fileSuits[i].file, <<>>),
                                ProjectOf(input, topLevelProjects[1]), Options(input))]
          ELSE fileSuits[i]]
  /\ pc' = "forbidOnly"
  /\ log' = log \o Calls("createProjectSuite", topLevelProjects)
  /\ UNCHANGED <<input, allFilesForProject, filesToRunByProject, topLevelProjects,
                 dependencyProjects, allTestFiles, loaderHost, stopCalls, loadCalls,
                 errors, preOnlyRoot, outcome>>

(* lines 99-107 *)
ComposeTopLevelProjects ==
  /\ pc = "compose"
  /\ rootSuite' = ComposeTopLevel(input, fileSuits, topLevelProjects, filesToRunByProject, <<>>)
  /\ composed' = ComposedTopLevel(input, fileSuits, topLevelProjects, filesToRunByProject)
  /\ pc' = "forbidOnly"
  /\ log' = log \o Calls("createProjectSuite", topLevelProjects)
  /\ UNCHANGED <<input, allFilesForProject, filesToRunByProject, topLevelProjects,
                 dependencyProjects, allTestFiles, loaderHost, stopCalls, loadCalls,
                 fileSuits, errors, preOnlyRoot, outcome>>

(* as ComplainAboutOnly, after the only-filter instead of before it *)
ComplainAboutOnlyAfterFilterOnly ==
  /\ pc = "forbidOnly"
  /\ preOnlyRoot' = rootSuite
  /\ rootSuite' = FilterOnly(rootSuite)
  /\ errors' = errors \o ForbidOnlyErrors(input, rootSuite')
  /\ pc' = "prepend"
  /\ log' = Append(log, Call("filterOnly", ""))
              \o (IF input.forbidOnly THEN <<Call("_getOnlyItems", "")>> ELSE <<>>)
  /\ UNCHANGED <<input, allFilesForProject, filesToRunByProject, topLevelProjects,
                 dependencyProjects, allTestFiles, loaderHost, stopCalls, loadCalls,
                 fileSuits, composed, outcome>>

(* as ComplainAboutOnly, throwing when a focused item is found *)
ComplainAboutOnlyAndThrow ==
  /\ pc = "forbidOnly"
  /\ errors' = errors \o ForbidOnlyErrors(input, rootSuite)
  /\ pc' = IF ForbidOnlyErrors(input, rootSuite) = <<>> THEN "filterOnly" ELSE "failed"
  /\ outcome' = IF ForbidOnlyErrors(input, rootSuite) = <<>> THEN outcome ELSE "thrown"
  /\ log' = IF input.forbidOnly THEN Append(log, Call("_getOnlyItems", "")) ELSE log
  /\ UNCHANGED <<input, allFilesForProject, filesToRunByProject, topLevelProjects,
                 dependencyProjects, allTestFiles, loaderHost, stopCalls, loadCalls,
                 fileSuits, rootSuite, composed, preOnlyRoot>>

(* lines 109-114 *)
ComplainAboutOnly ==
  /\ pc = "forbidOnly"
  /\ errors' = errors \o ForbidOnlyErrors(input, rootSuite)
  /\ pc' = "filterOnly"
  /\ log' = IF input.forbidOnly THEN Append(log, Call("_getOnlyItems", "")) ELSE log
  /\ UNCHANGED <<input, allFilesForProject, filesToRunByProject, topLevelProjects,
                 dependencyProjects, allTestFiles, loaderHost, stopCalls, loadCalls,
                 fileSuits, rootSuite, composed, preOnlyRoot, outcome>>

(* as FilterOnlyForLeafProjects, filtering each project suite on its own *)
FilterOnlyPerProjectSuite ==
  /\ pc = "filterOnly"
  /\ preOnlyRoot' = rootSuite
  /\ rootSuite' = Flatten([i \in 1..Len(rootSuite) |-> FilterOnly(<<rootSuite[i]>>)])
  /\ pc' = "prepend"
  /\ log' = Append(log, Call("filterOnly", ""))
  /\ UNCHANGED <<input, allFilesForProject, filesToRunByProject, topLevelProjects,
                 dependencyProjects, allTestFiles, loaderHost, stopCalls, loadCalls,
                 fileSuits, errors, composed, outcome>>

(* lines 116-117 *)
FilterOnlyForLeafProjects ==
  /\ pc = "filterOnly"
  /\ preOnlyRoot' = rootSuite
  /\ rootSuite' = FilterOnly(rootSuite)
  /\ pc' = "prepend"
  /\ log' = Append(log, Call("filterOnly", ""))
  /\ UNCHANGED <<input, allFilesForProject, filesToRunByProject, topLevelProjects,
                 dependencyProjects, allTestFiles, loaderHost, stopCalls, loadCalls,
                 fileSuits, errors, composed, outcome>>

(* as PrependDependencyProjects, with the only-filter run once more over the
   root that holds the dependency suites *)
PrependDependencyProjectsThenFilterOnly ==
  /\ pc = "prepend"
  /\ rootSuite' = FilterOnly(PrependDependencies(input, fileSuits, dependencyProjects,
                                                 filesToRunByProject, rootSuite))
  /\ composed' = composed \o ComposedDependencies(input, fileSuits, dependencyProjects,
                                                   filesToRunByProject)
  /\ pc' = "return"
  /\ log' = log \o Calls("createProjectSuite", dependencyProjects)
  /\ UNCHANGED <<input, allFilesForProject, filesToRunByProject, topLevelProjects,
                 dependencyProjects, allTestFiles, loaderHost, stopCalls, loadCalls,
                 fileSuits, errors, preOnlyRoot, outcome>>

(* lines 119-124 *)
PrependDependencyProjects ==
  /\ pc = "prepend"
  /\ rootSuite' = PrependDependencies(input, fileSuits, dependencyProjects,
                                      filesToRunByProject, rootSuite)
  /\ composed' = composed \o ComposedDependencies(input, fileSuits, dependencyProjects,
                                                   filesToRunByProject)
  /\ pc' = "return"
  /\ log' = log \o Calls("createProjectSuite", dependencyProjects)
  /\ UNCHANGED <<input, allFilesForProject, filesToRunByProject, topLevelProjects,
                 dependencyProjects, allTestFiles, loaderHost, stopCalls, loadCalls,
                 fileSuits, errors, preOnlyRoot, outcome>>

(* line 126 *)
Return ==
  /\ pc = "return"
  /\ outcome' = "returned"
  /\ pc' = "done"
  /\ log' = Append(log, Call("return", ""))
  /\ UNCHANGED <<input, allFilesForProject, filesToRunByProject, topLevelProjects,
                 dependencyProjects, allTestFiles, loaderHost, stopCalls, loadCalls,
                 fileSuits, errors, rootSuite, composed, preOnlyRoot>>

Next ==
  \/ CollectFiles
  \/ FilterFiles
  \/ Shard
  \/ RebuildClosure
  \/ CreateLoaderHost
  \/ LoadTestFile
  \/ StopLoaderHost
  \/ ComplainAboutDuplicateTitles
  \/ ComposeTopLevelProjects
  \/ ComplainAboutOnly
  \/ FilterOnlyForLeafProjects
  \/ PrependDependencyProjects
  \/ Return

Spec == Init /\ [][Next]_vars

---------------------------------------------------------------------------
(* Vocabulary of the properties *)

Returned == outcome = "returned"

(* the tests below a suite, as (line, title path below the file) pairs *)
TestsOfEntries(entries) ==
  LET tests == AllTests(entries, <<>>)
  IN {[line |-> tests[i].line, titlePath |-> tests[i].titlePath] : i \in 1..Len(tests)}

(* the tests of a project suite: one per file clone and declared test *)
TestsOfProjectSuite(suite) ==
  UNION {{[project |-> suite.project, file |-> suite.entries[k].file,
           repeatEachIndex |-> suite.entries[k].repeatEachIndex,
           line |-> t.line, titlePath |-> t.titlePath] :
            t \in TestsOfEntries(suite.entries[k].entries)} : k \in 1..Len(suite.entries)}

TestsOfRoot(root) == UNION {TestsOfProjectSuite(root[i]) : i \in 1..Len(root)}

(* the tests the root holds for one project *)
TestsOfProjectIn(root, name) == {t \in TestsOfRoot(root) : t.project = name}

(* every test the loader produced for the files of a list, once per repeat index *)
LoadedTestsOf(name, files, repeatEach) ==
  UNION {{[project |-> name, file |-> fileSuits[i].file, repeatEachIndex |-> r,
           line |-> t.line, titlePath |-> t.titlePath] :
            t \in TestsOfEntries(fileSuits[i].entries), r \in 0..(repeatEach - 1)} :
         i \in {i \in 1..Len(fileSuits) : Contains(files, fileSuits[i].file)}}

(* the rendered title a project's grep sees for a test *)
GrepTitleOf(t) == Join(<<<<t.project>>, <<t.file>>>> \o t.titlePath, <<" ">>)

UnionOfFileLists(m) == UNION {Range(m[i].files) : i \in 1..Len(m)}

---------------------------------------------------------------------------
(* C1: whenever loadAllTests has ended (returned or thrown) after creating a
   loader host, loaderHost.stop() has been called exactly once. *)
C1_StopOnEveryExit ==
  (outcome # "pending" /\ loaderHost # "none") => stopCalls = 1

C3_DependenciesFirst ==
  Returned =>
    \A i, j \in 1..Len(rootSuite) :
      (/\ Contains(dependencyProjects, rootSuite[i].project)
       /\ Contains(topLevelProjects, rootSuite[j].project)) => i < j

(* a returned root with a dependency suite and a top-level suite, in a run
   with two dependency projects of which one composed to nothing *)
C3_Witness ==
  /\ Returned
  /\ Len(dependencyProjects) >= 2
  /\ \E i \in 1..Len(rootSuite) : Contains(dependencyProjects, rootSuite[i].project)
  /\ \E j \in 1..Len(rootSuite) : Contains(topLevelProjects, rootSuite[j].project)
  /\ \E k \in 1..Len(composed) : composed[k].suite = <<>>

(* C4 as stated: the root holds, for every dependency project, every test of
   every file of its unfiltered file list, once per repeat index. *)
C4_DependencyHasEveryTest ==
  Returned =>
    \A k \in 1..Len(dependencyProjects) :
      LET P == ProjectOf(input, dependencyProjects[k])
      IN LoadedTestsOf(P.name, P.files, P.repeatEach) \subseteq TestsOfProjectIn(rootSuite, P.name)

(* C4 amended: the root holds, for every dependency project, exactly the
   tests of its unfiltered file list that the project's own grep matches and
   its own grepInvert does not, once per repeat index, whatever the
   command-line file filters, line focus, title matcher, shard and focused
   markers are. *)
C4_DependencyHasEveryTestItsGrepKeeps ==
  Returned =>
    \A k \in 1..Len(dependencyProjects) :
      LET P == ProjectOf(input, dependencyProjects[k])
      IN TestsOfProjectIn(rootSuite, P.name) =
           {t \in LoadedTestsOf(P.name, P.files, P.repeatEach) :
              /\ CreateTitleMatcher(P.grep, GrepTitleOf(t))
              /\ ~(P.grepInvert # Null /\ CreateTitleMatcher(P.grepInvert, GrepTitleOf(t)))}

(* a dependency outside the project filter, under a file filter with a line,
   a title matcher, a shard and a focused test, repeated, and whole in the root *)
C4_Witness ==
  /\ Returned
  /\ input.projectFilter # <<>> /\ input.testFileFilters # <<>>
  /\ input.testTitleMatcher # Null /\ input.shard # <<>>
  /\ \E k \in 1..Len(dependencyProjects) :
       LET P == ProjectOf(input, dependencyProjects[k])
       IN /\ P.name \notin input.projectFilter[1]
          /\ P.repeatEach > 1
          /\ \E t \in TestsOfProjectIn(rootSuite, P.name) : t.repeatEachIndex = 1
          /\ LoadedTestsOf(P.name, P.files, P.repeatEach) = TestsOfProjectIn(rootSuite, P.name)
          /\ HasOnly(FileSuiteOf(fileSuits, "a").entries)

---------------------------------------------------------------------------
(* the tests createProjectSuite cloned for the k-th call (line 144) *)
ClonedBy(k) ==
  LET P == ProjectOf(input, composed[k].project)
  IN LoadedTestsOf(P.name, MapGet(filesToRunByProject, P.name), P.repeatEach)

(* the tests the k-th createProjectSuite call returned *)
RetainedBy(k) ==
  IF composed[k].suite = <<>> THEN {} ELSE TestsOfProjectSuite(composed[k].suite[1])

(* the claim's three-part title condition for test t of the k-th call *)
TitleFiltersKeep(k, t) ==
  LET P == ProjectOf(input, composed[k].project)
      external == IF composed[k].dependency THEN Null ELSE input.testTitleMatcher
  IN /\ ~(P.grepInvert # Null /\ CreateTitleMatcher(P.grepInvert, GrepTitleOf(t)))
     /\ CreateTitleMatcher(P.grep, GrepTitleOf(t))
     /\ (external = Null \/ CreateTitleMatcher(external, GrepTitleOf(t)))

(* the line focus of the command-line file filters keeps test t of the k-th call *)
LineFocusKeeps(k, t) ==
  \/ composed[k].dependency
  \/ input.testFileFilters = <<>>
  \/ \E i \in 1..Len(input.testFileFilters) :
       /\ input.testFileFilters[i].file = t.file
       /\ input.testFileFilters[i].line \in {<<>>, <<t.line>>}

(* C5 as stated: a cloned test is retained by createProjectSuite if and only
   if grepInvert does not match it, grep matches it and the external matcher,
   when there is one, matches it. *)
C5_RetainedIffTitleFilters ==
  \A k \in 1..Len(composed) :
    \A t \in ClonedBy(k) : t \in RetainedBy(k) <=> TitleFiltersKeep(k, t)

(* C5 amended: a cloned test that the line focus of the file filters keeps is
   retained if and only if the three-part title condition holds; a test the
   line focus drops is not retained; nothing else is retained. *)
C5_RetainedIffLineAndTitleFilters ==
  \A k \in 1..Len(composed) :
    /\ RetainedBy(k) \subseteq ClonedBy(k)
    /\ \A t \in ClonedBy(k) :
         t \in RetainedBy(k) <=> (LineFocusKeeps(k, t) /\ TitleFiltersKeep(k, t))

(* a top-level project with a grepInvert, under an external matcher, that
   keeps one cloned test and drops another *)
C5_Witness ==
  \E k \in 1..Len(composed) :
    /\ ~composed[k].dependency
    /\ ProjectOf(input, composed[k].project).grepInvert # Null
    /\ input.testTitleMatcher # Null
    /\ RetainedBy(k) # {}
    /\ RetainedBy(k) # ClonedBy(k)

---------------------------------------------------------------------------
(* the groups and tests below a suite: line, focus flag, lines of the
   enclosing groups *)
RECURSIVE NodesOfEntries(_, _)
NodesOfEntries(entries, ancestors) ==
  IF entries = <<>> THEN {}
  ELSE LET e == Head(entries)
       IN {[line |-> e.line, only |-> e.only, ancestors |-> ancestors]}
          \cup NodesOfEntries(e.entries, ancestors \cup {e.line})
          \cup NodesOfEntries(Tail(entries), ancestors)

NodesOfRoot(root) ==
  UNION {UNION {{[project |-> root[i].project, file |-> root[i].entries[k].file,
                  repeatEachIndex |-> root[i].entries[k].repeatEachIndex,
                  line |-> n.line, only |-> n.only, ancestors |-> n.ancestors] :
                   n \in NodesOfEntries(root[i].entries[k].entries, {})} :
                k \in 1..Len(root[i].entries)} : i \in 1..Len(root)}

SameFileSuite(n, m) ==
  n.project = m.project /\ n.file = m.file /\ n.repeatEachIndex = m.repeatEachIndex

(* n is focused, or below a focused group, or above a focused item *)
InFocusClosure(n, nodes) ==
  \/ n.only
  \/ \E m \in nodes : SameFileSuite(n, m) /\ m.only /\ m.line \in n.ancestors
  \/ \E m \in nodes : SameFileSuite(n, m) /\ m.only /\ n.line \in m.ancestors

(* C6: after filterOnly the root is unchanged when it held no focused item;
   otherwise its groups and tests are exactly the focused ones with their
   ancestors and descendants, and only project suites and file suites that
   hold one of them remain. *)
C6_OnlySemantics ==
  pc = "prepend" =>
    LET before == NodesOfRoot(preOnlyRoot)
        after == NodesOfRoot(rootSuite)
    IN IF \A n \in before : ~n.only
       THEN rootSuite = preOnlyRoot
       ELSE /\ after = {n \in before : InFocusClosure(n, before)}
            /\ \A i \in 1..Len(rootSuite) :
                 /\ \E n \in after : n.project = rootSuite[i].project
                 /\ \A k \in 1..Len(rootSuite[i].entries) :
                      rootSuite[i].entries[k].entries # <<>>

(* two top-level project suites before the filter, one with a focused test
   inside a group and one without focused items, which is removed *)
C6_Witness ==
  /\ pc = "prepend"
  /\ Len(preOnlyRoot) >= 2
  /\ Len(rootSuite) < Len(preOnlyRoot)
  /\ \E n \in NodesOfRoot(rootSuite) : n.only /\ n.ancestors # {}
  /\ NodesOfRoot(rootSuite) # NodesOfRoot(preOnlyRoot)

---------------------------------------------------------------------------
NoDependencies == \A i \in 1..Len(input.projects) : input.projects[i].deps = <<>>

ShardRoot(total, current) ==
  LoadAllTests([input EXCEPT !.shard = <<[total |-> total, current |-> current]>>])

(* the state machine and the function LoadAllTests agree on the returned root *)
ReturnedRootIsLoadAllTests == Returned => rootSuite = LoadAllTests(input)

(* C7: without dependencies, the roots of shards 1..N hold pairwise disjoint
   sets of tests whose union is the set of tests of the unsharded root. *)
C7_ShardsPartitionTheRun ==
  (Returned /\ NoDependencies /\ input.shard = <<>>) =>
    \A total \in 1..MaxShardTotal :
      /\ \A c, d \in 1..total :
           c # d => TestsOfRoot(ShardRoot(total, c)) \cap TestsOfRoot(ShardRoot(total, d)) = {}
      /\ UNION {TestsOfRoot(ShardRoot(total, c)) : c \in 1..total} = TestsOfRoot(rootSuite)

---------------------------------------------------------------------------
DuplicatesReported == pc \in {"compose", "forbidOnly", "filterOnly", "prepend", "return", "done"}

DuplicateErrors == SelectIdx(errors, {i \in 1..Len(errors) : errors[i].type = "duplicate"})

(* the tests of the i-th loaded file, title paths without the file segment *)
FileTests(i) == AllTests(fileSuits[i].entries, <<>>)

(* C8: every test with an earlier test of the same title path in its file
   has exactly one duplicate error located at it, and that error refers to
   the first test of the file with that title path. *)
C8_DuplicateRefersToFirst ==
  DuplicatesReported =>
    \A i \in 1..Len(fileSuits) :
      \A j \in 1..Len(FileTests(i)) :
        LET tests == FileTests(i)
            same == {n \in 1..Len(tests) : tests[n].titlePath = tests[j].titlePath}
            first == CHOOSE n \in same : \A o \in same : n <= o
            mine == {e \in 1..Len(DuplicateErrors) :
                       DuplicateErrors[e].location =
                         [file |-> fileSuits[i].file, line |-> tests[j].line]}
        IN first < j =>
             /\ Cardinality(mine) = 1
             /\ \A e \in mine :
                  DuplicateErrors[e].firstDeclaredIn =
                    [file |-> fileSuits[i].file, line |-> tests[first].line]

RECURSIVE SumOver(_, _)
SumOver(f, n) == IF n = 0 THEN 0 ELSE f[n] + SumOver(f, n - 1)

(* tests of the i-th loaded file minus its distinct title paths *)
RepeatedPaths(i) ==
  Len(FileTests(i)) - Cardinality({FileTests(i)[n].titlePath : n \in 1..Len(FileTests(i))})

(* tests of the i-th loaded file minus its distinct rendered full titles *)
RepeatedTitles(i) ==
  Len(FileTests(i))
    - Cardinality({Join(FileTests(i)[n].titlePath, <<" > ">>) : n \in 1..Len(FileTests(i))})

(* C9 as stated: every duplicate error is for a test with an earlier test of
   the same title path in the same file, and the errors number the sum over
   the files of tests minus distinct title paths. *)
C9_DuplicatesPerFileByPath ==
  DuplicatesReported =>
    /\ \A e \in 1..Len(DuplicateErrors) :
         \E i \in 1..Len(fileSuits) :
           /\ fileSuits[i].file = DuplicateErrors[e].location.file
           /\ \E n, o \in 1..Len(FileTests(i)) :
                /\ n < o
                /\ FileTests(i)[o].line = DuplicateErrors[e].location.line
                /\ FileTests(i)[n].titlePath = FileTests(i)[o].titlePath
    /\ Len(DuplicateErrors) = SumOver([i \in 1..Len(fileSuits) |-> RepeatedPaths(i)], Len(fileSuits))

(* C9 amended: every duplicate error is for a test with an earlier test of
   the same rendered full title (the title path joined with the separator)
   in the same file, which it refers to, and the errors number the sum over
   the files of tests minus distinct rendered full titles. *)
C9_DuplicatesPerFileByRenderedTitle ==
  DuplicatesReported =>
    /\ \A e \in 1..Len(DuplicateErrors) :
         /\ DuplicateErrors[e].firstDeclaredIn.file = DuplicateErrors[e].location.file
         /\ \E i \in 1..Len(fileSuits) :
              /\ fileSuits[i].file = DuplicateErrors[e].location.file
              /\ \E n, o \in 1..Len(FileTests(i)) :
                   /\ n < o
                   /\ FileTests(i)[o].line = DuplicateErrors[e].location.line
                   /\ FileTests(i)[n].line = DuplicateErrors[e].firstDeclaredIn.line
                   /\ Join(FileTests(i)[n].titlePath, <<" > ">>)
                        = Join(FileTests(i)[o].titlePath, <<" > ">>)
    /\ Len(DuplicateErrors) = SumOver([i \in 1..Len(fileSuits) |-> RepeatedTitles(i)], Len(fileSuits))

(* two loaded files declare the same title path, one of them once, and a
   duplicate has been reported *)
C9_Witness ==
  /\ DuplicatesReported
  /\ DuplicateErrors # <<>>
  /\ \E i, k \in 1..Len(fileSuits) :
       /\ i # k
       /\ RepeatedPaths(i) = 0
       /\ \E n \in 1..Len(FileTests(i)), o \in 1..Len(FileTests(k)) :
            FileTests(i)[n].titlePath = FileTests(k)[o].titlePath

---------------------------------------------------------------------------
ForbidOnlyErrorsReported == SelectIdx(errors, {i \in 1..Len(errors) : errors[i].type = "forbidOnly"})

(* the focused groups and tests declared in the loaded files of a list *)
FocusedDeclaredIn(files) ==
  UNION {{[file |-> fileSuits[i].file, line |-> n.line, isTest |-> n.line \in
             {t.line : t \in TestsOfEntries(fileSuits[i].entries)}] :
            n \in {m \in NodesOfEntries(fileSuits[i].entries, {}) : m.only}} :
         i \in {i \in 1..Len(fileSuits) : Contains(files, fileSuits[i].file)}}

(* C10: with forbidOnly and exactly one focused test in the files of the
   single top-level project, a test that the project's filters retain,
   exactly one forbid-only error is appended, it is located at that test, and
   the returned root holds only focused tests of that project; without
   forbidOnly no forbid-only error is appended. *)
C10_OneForbidOnlyError ==
  /\ ~input.forbidOnly => ForbidOnlyErrorsReported = <<>>
  /\ (Returned /\ input.forbidOnly /\ Len(topLevelProjects) = 1) =>
       LET focused == FocusedDeclaredIn(MapGet(filesToRunByProject, topLevelProjects[1]))
       IN (/\ Cardinality(focused) = 1
           /\ \A f \in focused :
                f.isTest /\ \E t \in RetainedBy(1) : t.file = f.file /\ t.line = f.line) =>
            /\ Len(ForbidOnlyErrorsReported) = 1
            /\ \A f \in focused :
                 ForbidOnlyErrorsReported[1].location = [file |-> f.file, line |-> f.line]
            /\ \A t \in TestsOfProjectIn(rootSuite, topLevelProjects[1]) :
                 \E f \in focused : t.file = f.file /\ t.line = f.line

---------------------------------------------------------------------------
ForbidOnlyChecked == pc \in {"filterOnly", "prepend", "return", "done"}

(* the errors of the sink that validation appended *)
ValidationErrorsReported ==
  SelectIdx(errors, {i \in 1..Len(errors) : errors[i].type \in {"duplicate", "forbidOnly"}})

(* the state machine and the function ValidationErrors agree *)
ReportedErrorsAreValidationErrors ==
  ForbidOnlyChecked => ValidationErrorsReported = ValidationErrors(input)

(* the run's input without title matcher, without the projects' grep and
   grepInvert and without the lines of the file filters: the same files are
   selected and loaded *)
WithoutTitleAndLineFilters(cfg) ==
  [cfg EXCEPT !.testTitleMatcher = Null,
              !.projects = [i \in 1..Len(cfg.projects) |->
                              [cfg.projects[i] EXCEPT !.grep = ".*", !.grepInvert = Null]],
              !.testFileFilters = [i \in 1..Len(cfg.testFileFilters) |->
                                     [cfg.testFileFilters[i] EXCEPT !.line = <<>>]]]

(* C11: once both checks have run, the duplicate-title and forbid-only
   errors in the sink are those of the same run without title matcher, grep,
   grepInvert and line focus. *)
C11_ValidationIgnoresFilters ==
  ForbidOnlyChecked =>
    ValidationErrorsReported = ValidationErrors(WithoutTitleAndLineFilters(input))

---------------------------------------------------------------------------
LoadErrors == SelectIdx(errors, {i \in 1..Len(errors) : errors[i].type = "load"})

(* C12: a run with duplicate-title or forbid-only findings has not thrown;
   the returned root is the root of the same input with forbidOnly disabled,
   which no error of the sink enters; and when the returned root is empty the
   sink holds nothing but the load errors and the duplicate-title errors of
   the loaded files. *)
C12_FindingsDoNotAlterAssembly ==
  /\ (DuplicateErrors # <<>> \/ ForbidOnlyErrorsReported # <<>>) => outcome # "thrown"
  /\ Returned =>
       /\ rootSuite = LoadAllTests([input EXCEPT !.forbidOnly = FALSE])
       /\ errors = LoadErrors \o ValidationErrors(input)
  /\ (Returned /\ rootSuite = <<>>) =>
       /\ errors = LoadErrors \o CreateDuplicateTitlesErrors(fileSuits)
       /\ \A i \in 1..Len(LoadErrors) : LoadErrors[i].location.file \in input.errorFiles

(* a returned, non-empty root in a run that reported a duplicate title and a
   focused test *)
C12_Witness ==
  /\ Returned
  /\ rootSuite # <<>>
  /\ DuplicateErrors # <<>>
  /\ ForbidOnlyErrorsReported # <<>>

---------------------------------------------------------------------------
(* C13: the top-level and the dependency projects are disjoint; the returned
   root holds at most one suite per project, and a project suite at most one
   clone per file and repeat index. *)
C13_OneSuitePerProject ==
  /\ Range(topLevelProjects) \cap Range(dependencyProjects) = {}
  /\ Returned =>
       /\ \A i, j \in 1..Len(rootSuite) : rootSuite[i].project = rootSuite[j].project => i = j
       /\ \A i \in 1..Len(rootSuite) :
            \A k, l \in 1..Len(rootSuite[i].entries) :
              (/\ rootSuite[i].entries[k].file = rootSuite[i].entries[l].file
               /\ rootSuite[i].entries[k].repeatEachIndex = rootSuite[i].entries[l].repeatEachIndex)
                => k = l

(* a returned root under a file filter that holds, as a dependency, the
   suite of a project which the filter had selected, in a run with two
   dependency projects and a project cloned for two repeat indices *)
C13_Witness ==
  /\ Returned
  /\ input.testFileFilters # <<>>
  /\ Len(dependencyProjects) >= 2
  /\ \E i \in 1..Len(rootSuite) :
       /\ Contains(dependencyProjects, rootSuite[i].project)
       /\ MapHas(FilterFilesByCommandLine(input, allFilesForProject), rootSuite[i].project)
  /\ \E i \in 1..Len(rootSuite) :
       \E k \in 1..Len(rootSuite[i].entries) : rootSuite[i].entries[k].repeatEachIndex = 1
  /\ \E j \in 1..Len(rootSuite) : Contains(topLevelProjects, rootSuite[j].project)

---------------------------------------------------------------------------
(* the createProjectSuite calls that returned a suite, in call order *)
Attachable == SelectIdx(composed, {k \in 1..Len(composed) : composed[k].suite # <<>>})

(* C14: createProjectSuite returns null exactly when its filters retain no
   cloned test; the suites attached to the root are the non-null results;
   and every project suite of the root after the only-filter, and of the
   returned root, holds at least one test. *)
C14_NoEmptyProjectSuite ==
  /\ \A k \in 1..Len(composed) :
       composed[k].suite = <<>> <=>
         ~\E t \in ClonedBy(k) : LineFocusKeeps(k, t) /\ TitleFiltersKeep(k, t)
  /\ pc = "forbidOnly" =>
       rootSuite = [k \in 1..Len(Attachable) |-> Attachable[k].suite[1]]
  /\ pc \in {"prepend", "return", "done"} =>
       \A i \in 1..Len(rootSuite) : TestsOfProjectSuite(rootSuite[i]) # {}

(* a returned root with a project suite, in a run in which createProjectSuite
   returned null for a project that had files with tests to run *)
C14_Witness ==
  /\ Returned
  /\ rootSuite # <<>>
  /\ \E k \in 1..Len(composed) : composed[k].suite = <<>> /\ ClonedBy(k) # {}

---------------------------------------------------------------------------
(* the positions of `log` that hold a call of op whose argument is in args *)
CallsOf(op, args) == {i \in 1..Len(log) : log[i].op = op /\ log[i].arg \in args}

(* every call of `earlier` made so far precedes every call of `later`, and
   once a call of `later` is made each of the `needed` arguments has had its
   call of the earlier operation *)
Precedes(earlierOp, earlierArgs, laterOp, laterArgs, needed) ==
  /\ \A i \in CallsOf(earlierOp, earlierArgs), j \in CallsOf(laterOp, laterArgs) : i < j
  /\ CallsOf(laterOp, laterArgs) # {} =>
       \A a \in needed : CallsOf(earlierOp, {a}) # {}

(* C15: in the calls made so far, the file listings of the selected projects
   come before the first loadTestFile; every loadTestFile and the loader stop
   come before the duplicate-title check and before every createProjectSuite;
   the createProjectSuite calls of all top-level projects come before the
   forbid-only check; the forbid-only check comes before the only-filter; the
   only-filter comes before the first createProjectSuite of a dependency. *)
C15_PhaseOrder ==
  LET selected == Range(FilterProjects(input))
      top == Range(topLevelProjects)
      deps == Range(dependencyProjects)
      forbid == IF input.forbidOnly THEN {""} ELSE {}
  IN /\ Precedes("collectFilesForProject", selected, "loadTestFile", Files, selected)
     /\ Precedes("loadTestFile", Files, "createDuplicateTitlesErrors", {""}, Range(allTestFiles))
     /\ Precedes("loadTestFile", Files, "createProjectSuite", top \cup deps, Range(allTestFiles))
     /\ Precedes("stop", {""}, "createDuplicateTitlesErrors", {""}, {""})
     /\ Precedes("stop", {""}, "createProjectSuite", top \cup deps, {""})
     /\ Precedes("createProjectSuite", top, "_getOnlyItems", {""}, top)
     /\ Precedes("_getOnlyItems", {""}, "filterOnly", {""}, forbid)
     /\ Precedes("filterOnly", {""}, "createProjectSuite", deps, {""})

(* a returned run with forbidOnly set that listed three projects, loaded
   three files and composed two top-level projects and a dependency *)
C15_Witness ==
  /\ Returned
  /\ input.forbidOnly
  /\ Cardinality(CallsOf("collectFilesForProject", Range(FilterProjects(input)))) = 3
  /\ Cardinality(CallsOf("loadTestFile", Files)) = 3
  /\ Cardinality(CallsOf("createProjectSuite", Range(topLevelProjects))) = 2
  /\ Cardinality(CallsOf("createProjectSuite", Range(dependencyProjects))) = 1
  /\ CallsOf("_getOnlyItems", {""}) # {} /\ CallsOf("filterOnly", {""}) # {}

---------------------------------------------------------------------------
(* the projects some project of `names` names in its dependencies *)
DirectDependencies(names) ==
  UNION {Range(ProjectOf(input, n).deps) : n \in names}

RECURSIVE DependenciesWithin(_, _)
(* the projects reached from `names` over at most n dependency references *)
DependenciesWithin(names, n) ==
  IF n = 0 THEN {}
  ELSE DirectDependencies(names) \cup DependenciesWithin(DirectDependencies(names), n - 1)

(* the projects some project of `names` depends on, directly or transitively *)
DependenciesOf(names) == DependenciesWithin(names, Len(input.projects))

(* the projects the file filters select, before dependencies are removed *)
SelectedWithFiles == Range(MapKeys(FilterFilesByCommandLine(input, allFilesForProject)))

ClosureRebuilt == pc \notin {"collect", "filter", "shard", "closure"}

(* C16: with a shard configured, no project handed to the shard partition is
   a dependency of a selected project; after it, the dependency projects are
   exactly the projects the top-level projects that kept files depend on,
   each with its whole unfiltered file list; the Map holds no other project,
   and the files to load are the files of these lists. *)
C16_ClosureAfterSharding ==
  input.shard # <<>> =>
    /\ pc = "shard" =>
         Range(MapKeys(filesToRunByProject)) \cap DependenciesOf(SelectedWithFiles) = {}
    /\ ClosureRebuilt =>
         /\ \A p \in Range(topLevelProjects) :
              /\ p \in SelectedWithFiles \ DependenciesOf(SelectedWithFiles)
              /\ MapGet(filesToRunByProject, p) # <<>>
         /\ Range(dependencyProjects) = DependenciesOf(Range(topLevelProjects))
         /\ \A d \in Range(dependencyProjects) :
              MapGet(filesToRunByProject, d) = ProjectOf(input, d).files
         /\ Range(MapKeys(filesToRunByProject))
              = Range(topLevelProjects) \cup Range(dependencyProjects)
    /\ pc \notin {"collect", "filter", "shard", "closure", "createLoader"} =>
         Range(allTestFiles) = UnionOfFileLists(filesToRunByProject)

(* a returned run of one shard that has a top-level project, in which a
   dependency of a selected project is not in the Map and has a file that is
   not loaded, because its dependents went to another shard *)
C16_Witness ==
  /\ Returned
  /\ input.shard # <<>>
  /\ topLevelProjects # <<>>
  /\ \E p \in DependenciesOf(SelectedWithFiles) :
       /\ ~MapHas(filesToRunByProject, p)
       /\ Range(ProjectOf(input, p).files) \ Range(loadCalls) # {}

---------------------------------------------------------------------------
(* what the loader produced for the files loaded so far *)
LoaderOutput == [i \in 1..Len(fileSuits) |-> LoadedFileSuite(input, allTestFiles[i])]

(* the options of the k-th createProjectSuite call *)
OptionsOf(k) == IF composed[k].dependency THEN DependencyOptions(input) ELSE Options(input)

(* the run's input with other title filters for project p1 *)
WithOtherGrep(cfg, g) ==
  [cfg EXCEPT !.projects = [i \in 1..Len(cfg.projects) |->
                              IF cfg.projects[i].name = "p1"
                              THEN [cfg.projects[i] EXCEPT !.grep = g[1], !.grepInvert = g[2]]
                              ELSE cfg.projects[i]]]

OtherGreps == {<<".*", Null>>, <<"y", Null>>, <<".*", "x">>}

(* the projects other than p1 that have a file of p1 in their file list *)
SharingWithP1 ==
  {q \in Range(MapKeys(filesToRunByProject)) :
     /\ q # "p1"
     /\ MapHas(filesToRunByProject, "p1")
     /\ Range(MapGet(filesToRunByProject, q)) \cap Range(MapGet(filesToRunByProject, "p1")) # {}}

(* C17 as stated: the file suites are what the loader produced, and the tests
   the returned root holds for a project that shares a file with p1 are the
   same whatever grep and grepInvert p1 has. *)
C17_RetainedWhateverOtherProjectsFilter ==
  Returned =>
    /\ fileSuits = LoaderOutput
    /\ \A q \in SharingWithP1, g \in OtherGreps :
         TestsOfProjectIn(LoadAllTests(WithOtherGrep(input, g)), q)
           = TestsOfProjectIn(rootSuite, q)

(* the tests the returned root may hold of the k-th composed suite: all of
   them when no top-level suite held a focused item, else its own focused
   items' closure *)
OwnTestsAfterOnly(k) ==
  IF composed[k].dependency \/ GetOnlyItems(preOnlyRoot) = <<>> THEN RetainedBy(k)
  ELSE IF composed[k].suite = <<>> \/ GetOnlyItems(composed[k].suite) = <<>> THEN {}
  ELSE TestsOfRoot(FilterOnly(composed[k].suite))

(* C17 amended: the file suites stay what the loader produced; every
   createProjectSuite result is the composition of the loader's output under
   that project's own filters and options; and the tests the returned root
   holds for a project are those of its own composed suite, pruned to its own
   focused items' closure when some top-level suite held a focused item. *)
C17_FileSuitesNotMutated ==
  /\ fileSuits = LoaderOutput
  /\ \A k \in 1..Len(composed) :
       composed[k].suite =
         CreateProjectSuite(LoaderOutput, ProjectOf(input, composed[k].project), OptionsOf(k),
                            MapGet(filesToRunByProject, composed[k].project))
  /\ Returned =>
       \A k \in 1..Len(composed) :
         TestsOfProjectIn(rootSuite, composed[k].project) = OwnTestsAfterOnly(k)

(* a returned run in which two projects composed from one loaded file retain
   different tests of it *)
C17_Witness ==
  /\ Returned
  /\ \E k, l \in 1..Len(composed) :
       \E i \in 1..Len(fileSuits) :
         LET f == fileSuits[i].file
             linesOf(n) == {t.line : t \in {u \in RetainedBy(n) : u.file = f}}
         IN /\ Contains(MapGet(filesToRunByProject, composed[k].project), f)
            /\ Contains(MapGet(filesToRunByProject, composed[l].project), f)
            /\ linesOf(k) # {} /\ linesOf(l) # {}
            /\ linesOf(k) # linesOf(l)

---------------------------------------------------------------------------
(* no file of the load set makes loadTestFile reject *)
NoLoadRejects == ~Contains(allTestFiles, input.throwAt)

(* C18: in a run in which no loadTestFile call rejects, a load error in the
   sink never ends loadAllTests: the run has not thrown, the load loop goes
   on with the next file of the load set, and past the loop loadTestFile has
   been called for every file of the load set, a suite has been pushed for
   each and the loader has been stopped once; composition, the checks and
   the return follow (the root is the root of LoadAllTests). *)
C18_LoadErrorDoesNotAbort ==
  (LoadErrors # <<>> /\ NoLoadRejects) =>
    /\ outcome # "thrown" /\ pc # "failed"
    /\ loadCalls = SubSeq(allTestFiles, 1, Len(loadCalls))
    /\ Len(fileSuits) = Len(loadCalls)
    /\ pc = "load" => stopCalls = 0
    /\ pc # "load" =>
         /\ loadCalls = allTestFiles
         /\ stopCalls = 1
         /\ pc \in {"duplicates", "compose", "forbidOnly", "filterOnly", "prepend", "return", "done"}
    /\ Returned => rootSuite = LoadAllTests(input)

(* a returned run in which a file loaded before the last one reported an error *)
C18_Witness ==
  /\ Returned
  /\ LoadErrors # <<>>
  /\ \E i \in 1..(Len(loadCalls) - 1) : loadCalls[i] \in input.errorFiles
  /\ rootSuite # <<>>

---------------------------------------------------------------------------
(* the suites of the root that belong to the projects of a list, in root order *)
SuitesOf(root, projects) ==
  SelectIdx(root, {i \in 1..Len(root) : Contains(projects, root[i].project)})

(* the suites createProjectSuite returned for top-level projects, in call order *)
TopLevelAttachable ==
  SelectIdx(Attachable, {n \in 1..Len(Attachable) : ~Attachable[n].dependency})

(* no suite composed for a top-level project holds a focused item *)
NoFocusInTopLevel ==
  \A k \in 1..Len(composed) :
    composed[k].dependency \/ composed[k].suite = <<>> \/ GetOnlyItems(composed[k].suite) = <<>>

(* C19: the suite of a dependency project is in the returned root as
   createProjectSuite composed it, focused items or not; and when no
   top-level suite holds a focused item, no forbid-only error is appended
   and the top-level suites of the returned root are as composed, whatever
   is focused in the dependency projects. *)
C19_FocusInDependenciesInvisible ==
  /\ Returned =>
       \A k \in 1..Len(composed) :
         composed[k].dependency => SuitesOf(rootSuite, <<composed[k].project>>) = composed[k].suite
  /\ (ForbidOnlyChecked /\ NoFocusInTopLevel) => ForbidOnlyErrorsReported = <<>>
  /\ (Returned /\ NoFocusInTopLevel) =>
       /\ SuitesOf(rootSuite, topLevelProjects) = preOnlyRoot
       /\ preOnlyRoot = [k \in 1..Len(TopLevelAttachable) |-> TopLevelAttachable[k].suite[1]]

(* a returned run with forbidOnly set whose root holds a dependency suite
   with a focused test and other tests, and top-level suites without any
   focused item *)
C19_Witness ==
  /\ Returned
  /\ input.forbidOnly
  /\ NoFocusInTopLevel
  /\ SuitesOf(rootSuite, topLevelProjects) # <<>>
  /\ \E i \in 1..Len(rootSuite) :
       /\ Contains(dependencyProjects, rootSuite[i].project)
       /\ GetOnlyItems(<<rootSuite[i]>>) # <<>>
       /\ \E n \in NodesOfRoot(<<rootSuite[i]>>) : ~InFocusClosure(n, NodesOfRoot(<<rootSuite[i]>>))

---------------------------------------------------------------------------
Reverse(s) == [i \in 1..Len(s) |-> s[Len(s) + 1 - i]]

(* the projects of a list that have a suite in the root, in the list's order *)
InRoot(projects) ==
  SelectIdx(projects, {i \in 1..Len(projects) : SuitesOf(rootSuite, <<projects[i]>>) # <<>>})

(* C20: the projects of the returned root's children are the dependency
   projects that have a suite, in the reverse of the order of
   dependencyProjects, followed by the top-level projects that have a suite,
   in the order of topLevelProjects. *)
C20_ChildOrder ==
  Returned =>
    [i \in 1..Len(rootSuite) |-> rootSuite[i].project]
      = Reverse(InRoot(dependencyProjects)) \o InRoot(topLevelProjects)

(* a returned root with the suites of two dependency projects and of a
   top-level project *)
C20_Witness ==
  /\ Returned
  /\ Len(InRoot(dependencyProjects)) >= 2
  /\ Len(InRoot(topLevelProjects)) >= 1
  /\ rootSuite[1].project = dependencyProjects[Len(dependencyProjects)]

===========================================================================
